---- MODULE Spec2Model ----
(***************************************************************************)
(* Model of the nox-work-tracker ingestion pipeline:                       *)
(*   session_monitor.py  watermark store, transcript scanner, classifier,  *)
(*                       extend+sort merge, cycle (main)                   *)
(*   auto_tracker.py     git commit scan, extend+dedup+sort merge,         *)
(*                       run_monitoring_cycle, save_activity_log           *)
(*   sync_meta.py        sync_meta_files                                   *)
(*   auto_logger.py      _fallback_git_log, log_activity                   *)
(*   api_logger.py       create_entry                                      *)
(*   auto_tracker.py     main: the monitoring loop and its STOP file       *)
(*   task_queue.py       TaskQueue: add_task, start_task, complete_task    *)
(***************************************************************************)
EXTENDS Integers, Sequences, FiniteSets, TLC

VARIABLES
    files,              \* session id -> lines of the session's .jsonl file
    mtime,              \* session id -> st_mtime of the file, in ms
    stale,              \* session id -> file_age_days > 7
    wmFile,             \* content of .processed_sessions.json
    storeFile,          \* data/activity-log.json: its "entries" list
    pc,                 \* position of session_monitor.main
    SESSION_TIMESTAMPS, \* the module global of session_monitor
    batch,              \* the activities scan_sessions returned
    aborts,             \* number of cycles that ended by an exception or kill
    done,               \* lines classified by a cycle that ran to its end
    caller,             \* position of auto_tracker.run_monitoring_cycle
    activities,         \* its local list, loaded from the store
    new_activities,     \* what its scan_for_new_work has collected
    mergeS, mergeA, mergeB, mergeOut, \* inputs and result of the merge functions
    dataMeta,           \* data/meta.json
    rootMeta,           \* meta.json
    now,                \* the clock
    lastOp,             \* the last writer of the store or of the metadata, and how it ended
    storeMissing,       \* data/activity-log.json does not exist
    scans,              \* session id -> calls of parse_session_transcript on its file,
                        \* counted by the cycle taken call by call (history only)
    settled,            \* main has run to its end since the last write to a session
                        \* file (history only)
    tasks,              \* TaskQueue.tasks, in insertion order
    queueFile,          \* data/task_queue.json: its "tasks"
    STOP_FILE,          \* STOP_AUTO_TRACKER exists
    loopPc,             \* position of auto_tracker.main in its loop
    cycles,             \* calls of run_monitoring_cycle by the loop (history only)
    raised,             \* those that ended by an exception (history only)
    dashboard           \* entries the dashboard holds

vars == <<files, mtime, stale, wmFile, storeFile, pc, SESSION_TIMESTAMPS,
          batch, aborts, done, caller, activities, new_activities,
          mergeS, mergeA, mergeB, mergeOut, dataMeta, rootMeta, now, lastOp,
          storeMissing, scans, settled,
          tasks, queueFile, STOP_FILE, loopPc, cycles, raised, dashboard>>

(***************************************************************************)
(* Bounds                                                                  *)
(***************************************************************************)
MaxTs == 2          \* event timestamps are 1..MaxTs (ms)
MaxEvents == 2      \* lines appended to all session files together
MaxAborts == 1      \* cycles that end abnormally

(***************************************************************************)
(* Sessions: one .jsonl file under agents/<agent>/sessions each, in the    *)
(* order of AGENT_DIRS.                                                    *)
(***************************************************************************)
AGENT_DIRS == <<"main", "nox">>

SessionFiles == << [agent |-> "main", stem |-> "s1"], [agent |-> "nox", stem |-> "s1"] >>

session_id(f) == <<f.agent, f.stem>>

SessionIds == { session_id(SessionFiles[i]) : i \in 1..Len(SessionFiles) }

(***************************************************************************)
(* float('inf'), written as a value below every timestamp, and the order   *)
(* of watermark values with it.                                            *)
(***************************************************************************)
Inf == -1

NumLeq(a, b) == IF b = Inf THEN TRUE ELSE IF a = Inf THEN FALSE ELSE a <= b

NumLess(a, b) == ~NumLeq(b, a)

(***************************************************************************)
(* .processed_sessions.json.  A JSON value of the mapping is               *)
(*   [t |-> "num", v |-> n], [t |-> "bool", v |-> 0 or 1],                 *)
(*   [t |-> "str", v |-> n] (a string that float() parses to n, n = -2 for *)
(*   one it rejects), [t |-> "null", v |-> 0], [t |-> "list", v |-> 1] (a  *)
(*   list of one element), [t |-> "absent", v |-> 0] (no such key).        *)
(* The file is a mapping ("dict"), the legacy list of session ids ("list") *)
(* or a truncated file json.load rejects ("corrupt").                      *)
(***************************************************************************)
Num(n) == [t |-> "num", v |-> n]

Absent == [t |-> "absent", v |-> 0]

DictFile(map) == [shape |-> "dict", map |-> map, ids |-> {}]

ListFile(ids) == [shape |-> "list", map |-> [s \in SessionIds |-> Absent], ids |-> ids]

CorruptFile == [shape |-> "corrupt", map |-> [s \in SessionIds |-> Absent], ids |-> {}]

\* variant: a string float() rejects is kept as it is read
ToFloat_Unchecked(value) == IF value.t \in {"num", "bool", "str"} THEN value.v ELSE 0

\* "float(timestamp) if timestamp else 0", ValueError and TypeError giving 0
ToFloat(value) ==
    IF value.t = "num" THEN value.v
    ELSE IF value.t = "bool" THEN value.v
    ELSE IF value.t = "str" THEN (IF value.v = -2 THEN 0 ELSE value.v)
    ELSE 0

\* variant: the ids of a legacy list are taken as never seen
load_session_timestamps_NoList(file) ==
    IF file.shape = "list"
    THEN [ s \in SessionIds |-> 0 ]
    ELSE [ s \in SessionIds |-> ToFloat(file.map[s]) ]

\* session id -> timestamp, 0 for a key the mapping does not hold (every reader
\* uses .get(session_id, 0))
load_session_timestamps(file) ==
    IF file.shape = "list"
    THEN [ s \in SessionIds |-> IF s \in file.ids THEN Inf ELSE 0 ]
    ELSE [ s \in SessionIds |-> ToFloat(file.map[s]) ]

save_session_timestamps(timestamps) ==
    DictFile([ s \in SessionIds |-> Num(ToFloat(Num(timestamps[s]))) ])

\* SESSION_TIMESTAMPS = {} at import
NoTimestamps == [ s \in SessionIds |-> 0 ]

\* the watermark the file holds for a session
Persisted(file, s) == load_session_timestamps(file)[s]

(***************************************************************************)
(* ISO-8601 strings, by the parts that decide their order as strings:      *)
(* datetime.isoformat() of a UTC datetime prints "...SS+00:00" when the    *)
(* microsecond is 0 and "...SS.ffffff+00:00" otherwise; a transcript's own *)
(* string timestamp is "...SS.fffZ".                                       *)
(***************************************************************************)
isoformat(ms) == [sec |-> ms \div 1000, frac |-> ms % 1000, zone |-> "+00:00"]

RawIso(ms) == [sec |-> ms \div 1000, frac |-> ms % 1000, zone |-> "Z"]

\* the characters after the seconds: '+' < '.' < '0'..'9' < 'Z'
StrKey(iso) ==
    IF iso.zone = "+00:00" /\ iso.frac = 0
    THEN <<iso.sec, 0, 0, 0>>
    ELSE <<iso.sec, 1, iso.frac, IF iso.zone = "Z" THEN 1 ELSE 0>>

RECURSIVE LexLess(_, _)
LexLess(a, b) ==
    IF a = <<>> \/ b = <<>> THEN FALSE
    ELSE IF Head(a) # Head(b) THEN Head(a) < Head(b)
    ELSE LexLess(Tail(a), Tail(b))

\* x['timestamp'] < y['timestamp'] on the strings
StrLess(x, y) == LexLess(StrKey(x), StrKey(y))

\* datetime.fromisoformat(...).timestamp() * 1000
fromisoformat(iso) == iso.sec * 1000 + iso.frac

(***************************************************************************)
(* Lines of a transcript.  timestamp is the raw JSON value:                *)
(*   [fmt |-> "num", ms |-> n]   a number                                  *)
(*   [fmt |-> "iso", ms |-> n]   an ISO-8601 string of instant n           *)
(*   [fmt |-> "none", ms |-> 0]  no timestamp key                          *)
(* json is "object" for a line that parses to a JSON object, "invalid" for *)
(* one json.loads rejects, "other" for valid JSON that is no object,       *)
(* "null_content" for an object whose assistant message has content null.  *)
(***************************************************************************)
ToolLine(ts) ==
    [json |-> "object", timestamp |-> [fmt |-> "num", ms |-> ts], role |-> "assistant",
     content |-> << [type |-> "toolCall", name |-> "write", command |-> "", text |-> ""] >>]

TextLine(ts) ==
    [json |-> "object", timestamp |-> [fmt |-> "num", ms |-> ts], role |-> "assistant",
     content |-> << [type |-> "text", name |-> "", command |-> "", text |-> "working on it"] >>]

\* what the writers of the session files append
EnvLines == { ToolLine(ts) : ts \in 1..MaxTs } \cup { TextLine(ts) : ts \in 1..MaxTs }

(***************************************************************************)
(* session_monitor.classify_tool_activity: <<activity>> or <<>> (None).    *)
(* The activity carries the raw timestamp of the entry.                    *)
(***************************************************************************)
TrivialCommands == {"echo", "ls", "cat", "pwd", "sleep"}

ScriptExtensions == {".py", ".sh"}

\* Python's "needle in command" for the command strings the model uses: the
\* needles of lines 202 and 206 that occur somewhere in the string ("tools"
\* holds "ls")
Occurring(command) ==
    IF command \in TrivialCommands THEN {command}
    ELSE IF command = "cat notes.py" THEN {"cat", ".py"}
    ELSE IF command = "python run.py" THEN {".py"}
    ELSE IF command = "./build.sh" THEN {".sh"}
    ELSE IF command = "python tools.py" THEN {"ls", ".py"}
    ELSE {}

\* variant: the command is compared with the names, not searched for them
HasTrivial_Exact(command) == command \in TrivialCommands

\* line 202: any(cmd in command for cmd in ['echo', 'ls', 'cat', 'pwd', 'sleep'])
HasTrivial(command) == Occurring(command) \cap TrivialCommands # {}

\* line 206: '.py' in command or '.sh' in command
HasScriptExt(command) == Occurring(command) \cap ScriptExtensions # {}

Activity(type, agent, description, timestamp) ==
    [type |-> type, agent |-> agent, description |-> description, timestamp |-> timestamp]

classify_tool_activity(item, agent, entry) ==
    LET timestamp == entry.timestamp
        tool_name == item.name
    IN  IF tool_name \in {"write", "Write"}
            THEN << Activity("file_write", agent, "Created/updated file", timestamp) >>
        ELSE IF tool_name \in {"edit", "Edit"}
            THEN << Activity("file_edit", agent, "Edited file", timestamp) >>
        ELSE IF tool_name = "exec"
            THEN IF HasTrivial(item.command) THEN <<>>
                 ELSE IF HasScriptExt(item.command)
                      THEN << Activity("script_execution", agent, "Executed script/command", timestamp) >>
                      ELSE <<>>
        ELSE IF tool_name = "browser"
            THEN << Activity("browser_automation", agent, "Browser action", timestamp) >>
        ELSE IF tool_name \in {"web_search", "web_fetch"}
            THEN << Activity("web_research", agent, "Web research", timestamp) >>
        ELSE IF tool_name = "sessions_spawn"
            THEN << Activity("subagent_spawn", agent, "Spawned subagent", timestamp) >>
        ELSE IF tool_name = "message"
            THEN << Activity("communication", agent, "Message action", timestamp) >>
        ELSE IF tool_name = "cron"
            THEN << Activity("automation_config", agent, "Cron management", timestamp) >>
        ELSE <<>>

(***************************************************************************)
(* session_monitor.parse_session_transcript                                *)
(***************************************************************************)
\* variant: an entry without a timestamp counts as one of 1 ms
Normalize_Default(timestamp) ==
    IF timestamp.fmt = "iso" THEN fromisoformat(RawIso(timestamp.ms))
    ELSE IF timestamp.fmt = "num" THEN timestamp.ms
    ELSE 1

\* lines 106-115: the entry's timestamp as a number of ms
Normalize(timestamp) ==
    IF timestamp.fmt = "iso" THEN fromisoformat(RawIso(timestamp.ms))
    ELSE IF timestamp.fmt = "num" THEN timestamp.ms
    ELSE 0

\* variant: the agent the entry names in its own content
EventAgent_FromContent(agent_name, entry) == entry.agent

\* line 136: agent = agent_name, the directory the file was found under
EventAgent(agent_name, entry) == agent_name

\* variant: "if entry_ts < last_ts: continue"
AlreadyProcessed_Strict(entry_ts, last_ts) == NumLess(entry_ts, last_ts)

\* line 128: "if entry_ts <= last_ts: continue"
AlreadyProcessed(entry_ts, last_ts) == NumLeq(entry_ts, last_ts)

\* str.lower() on the texts the model uses
lower(text) == IF text = "Spawned Subagent" THEN "spawned subagent" ELSE text

\* variant: the text is searched as it is written
HasSpawnPhrase_CaseSensitive(item) == item.text \in {"sessions_spawn", "spawned subagent"}

\* lines 155-158: 'sessions_spawn' in text or 'spawned subagent' in text, on
\* the lowered text
HasSpawnPhrase(item) == lower(item.text) \in {"sessions_spawn", "spawned subagent"}

RECURSIVE ItemActivities(_, _, _, _)
ItemActivities(content, agent, entry, entry_timestamp) ==
    IF content = <<>> THEN <<>>
    ELSE LET item == Head(content)
             here == IF item.type = "toolCall"
                         THEN classify_tool_activity(item, agent, entry)
                     ELSE IF item.type = "text" /\ HasSpawnPhrase(item)
                         THEN << Activity("subagent_spawn", agent,
                                          "Spawned subagent for background task",
                                          [fmt |-> "num", ms |-> entry_timestamp]) >>
                     ELSE <<>>
         IN  here \o ItemActivities(Tail(content), agent, entry, entry_timestamp)

\* the activities of one entry above the watermark, each with the place of its
\* line (history information, not in the program's dictionaries)
LineActivities(line, agent, where) ==
    LET acts == IF line.role = "assistant"
                THEN ItemActivities(line.content, agent, line, Normalize(line.timestamp))
                ELSE <<>>
    IN  [ k \in 1..Len(acts) |-> [act |-> acts[k], line |-> where] ]

\* the loop of lines 96-165 from line i on; the result is the pair of line 171
RECURSIVE ParseFrom(_, _, _, _, _, _, _)
ParseFrom(lines, i, sid, agent_name, last_seen_timestamp, acts, latest_timestamp) ==
    IF i > Len(lines) THEN [activities |-> acts, latest |-> latest_timestamp]
    ELSE LET line == lines[i]
             entry_timestamp == Normalize(line.timestamp)
         IN  IF line.json = "invalid"
                 THEN ParseFrom(lines, i + 1, sid, agent_name, last_seen_timestamp,
                                acts, latest_timestamp)
             ELSE IF line.json = "other"
                 \* entry.get raises; the except of line 167 ends the loop
                 THEN [activities |-> acts, latest |-> latest_timestamp]
             ELSE IF AlreadyProcessed(entry_timestamp, last_seen_timestamp)
                 THEN ParseFrom(lines, i + 1, sid, agent_name, last_seen_timestamp,
                                acts, latest_timestamp)
             ELSE IF line.json = "null_content"
                 \* "for item in content" raises after lines 131-133 have moved
                 \* latest_timestamp; the except of line 167 ends the loop
                 THEN [activities |-> acts,
                       latest |-> IF NumLess(latest_timestamp, entry_timestamp)
                                      THEN entry_timestamp ELSE latest_timestamp]
             ELSE ParseFrom(lines, i + 1, sid, agent_name, last_seen_timestamp,
                            acts \o LineActivities(line, EventAgent(agent_name, line),
                                                   <<sid, i>>),
                            IF NumLess(latest_timestamp, entry_timestamp)
                                THEN entry_timestamp ELSE latest_timestamp)

parse_session_transcript(lines, sid, agent_name, last_seen_timestamp) ==
    ParseFrom(lines, 1, sid, agent_name, last_seen_timestamp, <<>>, last_seen_timestamp)

(***************************************************************************)
(* session_monitor.scan_sessions over the session files, in the order of   *)
(* AGENT_DIRS: the pair (new_activities, SESSION_TIMESTAMPS).              *)
(***************************************************************************)
\* variant: "if file_mtime < last_seen_timestamp: continue"
Unmodified_Strict(file_mtime, last_seen_timestamp) == NumLess(file_mtime, last_seen_timestamp)

\* line 290: file not modified since the watermark
Unmodified(file_mtime, last_seen_timestamp) == NumLeq(file_mtime, last_seen_timestamp)

\* line 295: older than 7 days and already processed
TooOld(is_stale, last_seen_timestamp) == is_stale /\ NumLess(0, last_seen_timestamp)

\* variant: the mapping is rebuilt around the session just scanned
UpdateTimestamp_Rebuilt(timestamps, sid, latest_timestamp, last_seen_timestamp) ==
    IF NumLess(last_seen_timestamp, latest_timestamp)
    THEN [ s \in SessionIds |-> IF s = sid THEN latest_timestamp ELSE 0 ]
    ELSE timestamps

\* lines 321-322
UpdateTimestamp(timestamps, sid, latest_timestamp, last_seen_timestamp) ==
    IF NumLess(last_seen_timestamp, latest_timestamp)
    THEN [timestamps EXCEPT ![sid] = latest_timestamp]
    ELSE timestamps

RECURSIVE ScanFrom(_, _, _, _, _, _)
ScanFrom(k, fs, mt, st, timestamps, found) ==
    IF k > Len(SessionFiles) THEN [activities |-> found, timestamps |-> timestamps]
    ELSE LET f == SessionFiles[k]
             sid == session_id(f)
             last_seen_timestamp == timestamps[sid]
         IN  IF Unmodified(mt[sid], last_seen_timestamp) \/ TooOld(st[sid], last_seen_timestamp)
             THEN ScanFrom(k + 1, fs, mt, st, timestamps, found)
             ELSE LET r == parse_session_transcript(fs[sid], sid, f.agent, last_seen_timestamp)
                  IN  ScanFrom(k + 1, fs, mt, st,
                               UpdateTimestamp(timestamps, sid, r.latest, last_seen_timestamp),
                               found \o r.activities)

scan_sessions(fs, mt, st, timestamps) == ScanFrom(1, fs, mt, st, timestamps, <<>>)

(***************************************************************************)
(* session_monitor.convert_to_log_entry                                    *)
(***************************************************************************)
\* variant: the id counts the runs that ended abnormally before this one
convert_to_log_entry_PerRun(activity) ==
    LET raw == activity.timestamp
        timestamp_ms == IF raw.fmt = "iso" THEN fromisoformat(RawIso(raw.ms)) ELSE raw.ms
        timestamp_iso == IF raw.fmt = "iso" THEN RawIso(raw.ms) ELSE isoformat(raw.ms)
    IN  [id |-> <<"session", timestamp_ms + aborts>>,
         timestamp |-> timestamp_iso,
         agent |-> activity.agent,
         type |-> activity.type,
         description |-> activity.description,
         source |-> "session_monitor"]

convert_to_log_entry(activity) ==
    LET raw == activity.timestamp
        timestamp_ms == IF raw.fmt = "iso" THEN fromisoformat(RawIso(raw.ms)) ELSE raw.ms
        timestamp_iso == IF raw.fmt = "iso" THEN RawIso(raw.ms) ELSE isoformat(raw.ms)
    IN  [id |-> <<"session", timestamp_ms>>,
         timestamp |-> timestamp_iso,
         agent |-> activity.agent,
         type |-> activity.type,
         description |-> activity.description,
         source |-> "session_monitor"]

(***************************************************************************)
(* list.sort(key=lambda x: x['timestamp']) and the same with reverse=True: *)
(* stable, entries of equal key keep their order.                          *)
(***************************************************************************)
RECURSIVE InsertAsc(_, _)
InsertAsc(sorted, e) ==
    IF sorted = <<>> THEN <<e>>
    ELSE LET last == sorted[Len(sorted)]
         IN  IF StrLess(e.timestamp, last.timestamp)
             THEN InsertAsc(SubSeq(sorted, 1, Len(sorted) - 1), e) \o <<last>>
             ELSE sorted \o <<e>>

RECURSIVE SortAsc(_)
SortAsc(entries) ==
    IF entries = <<>> THEN <<>>
    ELSE InsertAsc(SortAsc(SubSeq(entries, 1, Len(entries) - 1)), entries[Len(entries)])

RECURSIVE InsertDesc(_, _)
InsertDesc(sorted, e) ==
    IF sorted = <<>> THEN <<e>>
    ELSE LET last == sorted[Len(sorted)]
         IN  IF StrLess(last.timestamp, e.timestamp)
             THEN InsertDesc(SubSeq(sorted, 1, Len(sorted) - 1), e) \o <<last>>
             ELSE sorted \o <<e>>

\* variant: sort ascending, then reverse the list
RECURSIVE Reverse(_)
Reverse(seq) == IF seq = <<>> THEN <<>> ELSE Reverse(Tail(seq)) \o <<Head(seq)>>

SortDesc_Reversed(entries) == Reverse(SortAsc(entries))

RECURSIVE SortDesc(_)
SortDesc(entries) ==
    IF entries = <<>> THEN <<>>
    ELSE InsertDesc(SortDesc(SubSeq(entries, 1, Len(entries) - 1)), entries[Len(entries)])

\* session_monitor.main, lines 410-414: entries.extend(log_entries), then sort
ExtendSort(entries, log_entries) == SortAsc(entries \o log_entries)

\* line 401
LogEntries(acts) == [ k \in 1..Len(acts) |-> convert_to_log_entry(acts[k].act) ]

(***************************************************************************)
(* auto_tracker: commits to activities, the store, the merge.              *)
(* A commit is [hash |-> <<first 8 hex digits, the rest>>, author,         *)
(* timestamp (seconds), message, repo].                                    *)
(***************************************************************************)
GitCommits ==
    { [hash |-> <<1, 7>>, author |-> "nox", timestamp |-> 0,
       message |-> "fix scraper", repo |-> "nox-scrapers"],
      [hash |-> <<2, 7>>, author |-> "steven", timestamp |-> 1,
       message |-> "[sage] add report", repo |-> "nox-dashboard"] }

detect_agent_from_commit(commit) ==
    IF commit.message \in {"[nox] add report"} \/ commit.author \in {"nox"} THEN "nox"
    ELSE IF commit.message \in {"[sage] add report"} \/ commit.author \in {"sage"} THEN "sage"
    ELSE IF commit.message \in {"[joy] add report"} \/ commit.author \in {"joy"} THEN "joy"
    ELSE "nox"

classify_work_type(commit) ==
    IF commit.message \in {"fix scraper"} THEN "bug_fix"
    ELSE IF commit.message \in {"[nox] add report", "[sage] add report", "[joy] add report"}
        THEN "feature"
    ELSE "other"

commit_to_activity(commit) ==
    [id |-> <<"auto", commit.hash[1]>>,
     timestamp |-> isoformat(commit.timestamp * 1000),
     agent |-> detect_agent_from_commit(commit),
     type |-> classify_work_type(commit),
     description |-> commit.message,
     source |-> "git_commit"]

\* scan_for_new_work, lines 211-213: "for commit in reversed(commits)"
RECURSIVE CommitActivities(_)
CommitActivities(commits) ==
    IF commits = <<>> THEN <<>>
    ELSE CommitActivities(Tail(commits)) \o << commit_to_activity(Head(commits)) >>

load_activity_log(store) == store

RECURSIVE DedupFrom(_, _, _)
DedupFrom(acts, seen_ids, deduped) ==
    IF acts = <<>> THEN deduped
    ELSE LET activity == Head(acts)
         IN  IF activity.id \notin seen_ids
             THEN DedupFrom(Tail(acts), seen_ids \cup {activity.id}, Append(deduped, activity))
             ELSE DedupFrom(Tail(acts), seen_ids, deduped)

\* variant: the last entry of an id takes the place of the first
RECURSIVE LastWithId(_, _)
LastWithId(acts, id) ==
    IF acts[Len(acts)].id = id THEN acts[Len(acts)]
    ELSE LastWithId(SubSeq(acts, 1, Len(acts) - 1), id)

deduplicate_activities_KeepLast(acts) ==
    LET first == DedupFrom(acts, {}, <<>>)
    IN  [ k \in 1..Len(first) |-> LastWithId(acts, first[k].id) ]

deduplicate_activities(acts) == DedupFrom(acts, {}, <<>>)

\* run_monitoring_cycle, lines 267-278: what is saved as the store, when
\* new_activities is not empty; the store is left alone otherwise
ExtendDedupSort(acts, new) == SortDesc(deduplicate_activities(acts \o new))

TrackerMerge(acts, new) == IF new # <<>> THEN ExtendDedupSort(acts, new) ELSE acts

(***************************************************************************)
(* Groups of variables.                                                    *)
(***************************************************************************)
sessionVars == <<files, mtime, stale>>

monitorVars == <<pc, SESSION_TIMESTAMPS, batch>>

trackerVars == <<caller, activities, new_activities>>

mergeVars == <<mergeS, mergeA, mergeB, mergeOut>>

metaVars == <<dataMeta, rootMeta, now, lastOp>>

queueVars == <<tasks, queueFile>>

loopVars == <<STOP_FILE, loopPc, cycles, raised>>

toolVars == <<queueVars, loopVars, dashboard>>

\* no task queued, the loop of auto_tracker.main not entered, nothing posted
InitNoTools ==
    /\ tasks = <<>>
    /\ queueFile = <<>>
    /\ STOP_FILE = FALSE
    /\ loopPc = "check"
    /\ cycles = 0
    /\ raised = 0
    /\ dashboard = <<>>

(***************************************************************************)
(* The writers of the session files, and time passing.  scan_sessions is   *)
(* the only reader of the files and the rest of the cycle does not look at *)
(* them again, so a write that arrives during a cycle is taken as arriving *)
(* right after it: both leave the same files, store and watermarks.        *)
(***************************************************************************)
TotalLines == LET n(k) == Len(files[session_id(SessionFiles[k])]) IN n(1) + n(2)

BetweenCycles == pc = "idle" /\ caller \in {"cli", "idle"}

\* a writer appends one line; the file's mtime becomes the time of the write
AppendLine(s, line) ==
    /\ BetweenCycles
    /\ TotalLines < MaxEvents
    /\ files' = [files EXCEPT ![s] = Append(@, line)]
    /\ mtime' = [mtime EXCEPT ![s] = TotalLines + 1]
    /\ stale' = [stale EXCEPT ![s] = FALSE]
    /\ settled' = FALSE
    /\ UNCHANGED <<wmFile, storeFile, monitorVars, aborts, done, trackerVars, mergeVars,
                   metaVars, storeMissing, scans, toolVars>>

\* seven days pass without a write to the file
Age(s) ==
    /\ BetweenCycles
    /\ files[s] # <<>>
    /\ ~stale[s]
    /\ stale' = [stale EXCEPT ![s] = TRUE]
    /\ UNCHANGED <<files, mtime, wmFile, storeFile, monitorVars, aborts, done,
                   trackerVars, mergeVars, metaVars, storeMissing, scans, settled, toolVars>>

(***************************************************************************)
(* The metadata copies data/meta.json and meta.json, and their writers.    *)
(* A copy is [exists, totalActivities, lastUpdated, hasTag, cacheBust]:    *)
(* lastUpdated is <<instant, zone suffix>>, cacheBust the characters of    *)
(* the tag, hasTag whether the file has a "cacheBust" key.  The writers    *)
(* run one after the other (single-instance scheduling).                   *)
(***************************************************************************)
\* datetime.now(timezone.utc).isoformat().replace("+00:00", "Z")
NowZ(t) == <<t, "Z">>

\* a metadata file that is not there
NoMeta == [exists |-> FALSE, totalActivities |-> 0, lastUpdated |-> NowZ(0),
           hasTag |-> FALSE, cacheBust |-> <<>>]

MaxClock == 3       \* the clock at the last write

DigitChars == <<"0", "1", "2", "3", "4", "5", "6", "7", "8", "9">>

IsDigit(c) == \E d \in 1..10 : DigitChars[d] = c

DigitOf(c) == (CHOOSE d \in 1..10 : DigitChars[d] = c) - 1

RECURSIVE DecValue(_)
DecValue(s) ==
    IF s = <<>> THEN 0 ELSE 10 * DecValue(SubSeq(s, 1, Len(s) - 1)) + DigitOf(s[Len(s)])

RECURSIVE DecDigits(_)
DecDigits(n) ==
    IF n < 10 THEN << DigitChars[n + 1] >>
    ELSE DecDigits(n \div 10) \o << DigitChars[(n % 10) + 1] >>

RECURSIVE ZeroPad(_, _)
ZeroPad(s, width) == IF Len(s) >= width THEN s ELSE ZeroPad(<<"0">> \o s, width)

\* f"{version_num:04d}": the sign counts in the width
Format04d(n) ==
    IF n >= 0 THEN ZeroPad(DecDigits(n), 4) ELSE <<"-">> \o ZeroPad(DecDigits(-n), 3)

\* int(s) succeeds on a sign and decimal digits (the tags of the model hold
\* no blank and no underscore); a ValueError otherwise
IsInt(s) ==
    LET body == IF s # <<>> /\ s[1] \in {"-", "+"} THEN Tail(s) ELSE s
    IN  body # <<>> /\ \A k \in 1..Len(body) : IsDigit(body[k])

int(s) == IF s[1] = "-" THEN 0 - DecValue(Tail(s))
          ELSE IF s[1] = "+" THEN DecValue(Tail(s))
          ELSE DecValue(s)

NotV(c) == c # "v"

\* .replace("v", "")
replace_v(s) == SelectSeq(s, NotV)

\* .split("-")[0]
RECURSIVE BeforeDash(_)
BeforeDash(s) ==
    IF s = <<>> \/ s[1] = "-" THEN <<>> ELSE << s[1] >> \o BeforeDash(Tail(s))

\* now.strftime(...) of a format of `width` digits
strftime(t, width) == ZeroPad(DecDigits(t), width)

DefaultTag == <<"v", "0", "0", "0", "0">>

\* .get("cacheBust", "v0000")
current_cache(meta) == IF meta.hasTag THEN meta.cacheBust ELSE DefaultTag

\* sync_meta.py, lines 33-35 and 48-50: the copy's own tag, plus one
CanBump(meta) == IsInt(replace_v(current_cache(meta)))

\* variant: the tag is written back as it was read
Bumped_Same(meta) == current_cache(meta)

Bumped(meta) == <<"v">> \o Format04d(int(replace_v(current_cache(meta))) + 1)

\* variant: the cached count is kept
SyncedMeta_Cached(meta, actual_count, t) ==
    [meta EXCEPT !.lastUpdated = NowZ(t), !.hasTag = TRUE, !.cacheBust = Bumped(meta)]

\* lines 27-35 (data/meta.json) and 44-50 (meta.json)
SyncedMeta(meta, actual_count, t) ==
    [meta EXCEPT !.totalActivities = actual_count, !.lastUpdated = NowZ(t),
                 !.hasTag = TRUE, !.cacheBust = Bumped(meta)]

\* how sync_meta_files ends: open(..., 'r') raises FileNotFoundError and int()
\* raises ValueError, neither is caught
SyncOutcome(data_meta, root_meta) ==
    IF ~data_meta.exists THEN "sync: FileNotFoundError, nothing written"
    ELSE IF ~CanBump(data_meta) THEN "sync: ValueError, nothing written"
    ELSE IF ~root_meta.exists THEN "sync: FileNotFoundError, data/meta.json written"
    ELSE IF ~CanBump(root_meta) THEN "sync: ValueError, data/meta.json written"
    ELSE "sync"

SyncWritesData(outcome) ==
    outcome \in {"sync", "sync: FileNotFoundError, data/meta.json written",
                 "sync: ValueError, data/meta.json written"}

\* sync_meta.sync_meta_files
sync_meta_files ==
    /\ caller = "meta"
    /\ now < MaxClock
    /\ LET actual_count == Len(storeFile)
           outcome == SyncOutcome(dataMeta, rootMeta)
       IN  /\ dataMeta' = IF SyncWritesData(outcome)
                          THEN SyncedMeta(dataMeta, actual_count, now + 1) ELSE dataMeta
           /\ rootMeta' = IF outcome = "sync"
                          THEN SyncedMeta(rootMeta, actual_count, now + 1) ELSE rootMeta
           /\ lastOp' = outcome
    /\ now' = now + 1
    /\ UNCHANGED <<sessionVars, wmFile, storeFile, monitorVars, aborts, done, trackerVars,
                   mergeVars, storeMissing, scans, settled, toolVars>>

\* session_monitor.load_meta
load_meta(meta, t) ==
    IF meta.exists THEN meta
    ELSE [exists |-> TRUE, totalActivities |-> 0, lastUpdated |-> NowZ(t),
          hasTag |-> TRUE, cacheBust |-> DefaultTag]

\* session_monitor.main, lines 426-436
MainMeta(meta_data, entries, t) ==
    [meta_data EXCEPT !.lastUpdated = NowZ(t), !.totalActivities = Len(entries),
                      !.hasTag = TRUE, !.cacheBust = <<"v">> \o strftime(t, 10)]

(***************************************************************************)
(* session_monitor.main, one step per write to a file.  It runs as a       *)
(* script (caller = "cli") or inside auto_tracker.scan_for_new_work        *)
(* (caller = "monitor"), which catches its exceptions.                     *)
(***************************************************************************)
\* main has returned or raised: back in scan_for_new_work, line 222 or 236
Returned == caller' = IF caller = "monitor" THEN "merge" ELSE caller

\* lines 384-394: load the watermarks and scan
MainScan ==
    /\ pc = "idle"
    /\ caller \in {"cli", "monitor"}
    /\ wmFile.shape # "corrupt"
    /\ LET r == scan_sessions(files, mtime, stale, load_session_timestamps(wmFile))
       IN  /\ SESSION_TIMESTAMPS' = r.timestamps
           /\ batch' = r.activities
    /\ pc' = "scanned"
    /\ UNCHANGED <<sessionVars, wmFile, storeFile, aborts, done, trackerVars, mergeVars, metaVars, storeMissing, scans, settled, toolVars>>

\* line 48: json.load raises on a truncated file, main ends at line 384
MainLoadFails ==
    /\ pc = "idle"
    /\ caller \in {"cli", "monitor"}
    /\ wmFile.shape = "corrupt"
    /\ Returned
    /\ UNCHANGED <<sessionVars, wmFile, storeFile, monitorVars, aborts, done,
                   activities, new_activities, mergeVars, metaVars, storeMissing, scans, settled, toolVars>>

\* lines 389 and 396-436: the batch is merged into the store, the store
\* written, then data/meta.json
MainWriteStore ==
    /\ pc = "scanned"
    /\ batch # <<>>
    /\ ~storeMissing
    /\ storeFile' = ExtendSort(storeFile, LogEntries(batch))
    /\ dataMeta' = MainMeta(load_meta(dataMeta, now), storeFile', now)
    /\ pc' = "stored"
    /\ UNCHANGED <<sessionVars, wmFile, SESSION_TIMESTAMPS, batch, aborts, done,
                   trackerVars, mergeVars, rootMeta, now, lastOp, storeMissing, scans, settled, toolVars>>

\* lines 439-460: git add, commit, push; a CalledProcessError is logged
MainPublish(ok) ==
    /\ pc = "stored"
    /\ pc' = "published"
    /\ UNCHANGED <<sessionVars, wmFile, storeFile, SESSION_TIMESTAMPS, batch, aborts, done,
                   trackerVars, mergeVars, metaVars, storeMissing, scans, settled, toolVars>>

\* variant: the watermarks are saved right after the scan
SaveEnabled_AfterScan == pc = "scanned"

\* line 466 is reached from line 460 or, with no activity, from line 463
SaveEnabled == pc = "published" \/ (pc = "scanned" /\ batch = <<>>)

\* lines 465-471: the watermarks are written and main returns
MainSave ==
    /\ SaveEnabled
    /\ wmFile' = save_session_timestamps(SESSION_TIMESTAMPS)
    /\ done' = done \cup { batch[k].line : k \in 1..Len(batch) }
    /\ pc' = "idle"
    /\ SESSION_TIMESTAMPS' = NoTimestamps
    /\ batch' = <<>>
    /\ Returned
    /\ settled' = TRUE
    /\ UNCHANGED <<sessionVars, storeFile, aborts, activities, new_activities, mergeVars,
                   metaVars, storeMissing, scans, toolVars>>

\* line 72: open(..., 'w') has truncated the file and the process dies before
\* json.dump has written it
SaveInterrupted ==
    /\ SaveEnabled
    /\ aborts < MaxAborts
    /\ aborts' = aborts + 1
    /\ wmFile' = CorruptFile
    /\ pc' = "idle"
    /\ SESSION_TIMESTAMPS' = NoTimestamps
    /\ batch' = <<>>
    /\ caller' = IF caller = "monitor" THEN "idle" ELSE caller
    /\ activities' = <<>>
    /\ new_activities' = <<>>
    /\ UNCHANGED <<sessionVars, storeFile, done, mergeVars, metaVars, storeMissing, scans, settled, toolVars>>

\* the cycle ends between two writes: a call raises an exception main does not
\* catch (at lines 444-455 anything but CalledProcessError, such as
\* FileNotFoundError when git is not installed), or the process is killed
Abort ==
    /\ pc \in {"scanned", "stored", "published"}
    /\ aborts < MaxAborts
    /\ aborts' = aborts + 1
    /\ pc' = "idle"
    /\ SESSION_TIMESTAMPS' = NoTimestamps
    /\ batch' = <<>>
    /\ Returned
    /\ UNCHANGED <<sessionVars, wmFile, storeFile, done, activities, new_activities, mergeVars, metaVars, storeMissing, scans, settled, toolVars>>

(***************************************************************************)
(* auto_tracker.run_monitoring_cycle                                       *)
(***************************************************************************)
\* what get_git_commits_since returns over all repositories, newest first
CommitLogs == { <<>> } \cup { <<c>> : c \in GitCommits } \cup
              { <<c, d>> : c, d \in GitCommits }

\* lines 261-214: load the store, collect the new commits; main is called next
TrackerStart(commits) ==
    /\ caller = "idle"
    /\ pc = "idle"
    /\ activities' = load_activity_log(storeFile)
    /\ new_activities' = CommitActivities(commits)
    /\ caller' = "monitor"
    /\ UNCHANGED <<sessionVars, wmFile, storeFile, monitorVars, aborts, done, mergeVars, metaVars, storeMissing, scans, settled, toolVars>>

\* lines 223-239 and 267-278: .session_activities.json is written by nobody, so
\* new_activities holds the commits alone; merge and save when there are any
TrackerFinish ==
    /\ caller = "merge"
    /\ IF new_activities # <<>>
       THEN storeFile' = ExtendDedupSort(activities, new_activities)
       ELSE UNCHANGED storeFile
    /\ caller' = "idle"
    /\ activities' = <<>>
    /\ new_activities' = <<>>
    /\ UNCHANGED <<sessionVars, wmFile, monitorVars, aborts, done, mergeVars, metaVars, storeMissing, scans, settled, toolVars>>

(***************************************************************************)
(* The session monitor run as a script, cycle after cycle.                 *)
(***************************************************************************)
InitFiles ==
    /\ files = [ s \in SessionIds |-> <<>> ]
    /\ mtime = [ s \in SessionIds |-> 0 ]
    /\ stale = [ s \in SessionIds |-> FALSE ]
    /\ wmFile \in { DictFile([ s \in SessionIds |-> Absent ]) } \cup
                  { ListFile(ids) : ids \in SUBSET SessionIds }
    /\ storeFile = <<>>
    /\ pc = "idle"
    /\ SESSION_TIMESTAMPS = NoTimestamps
    /\ batch = <<>>
    /\ aborts = 0
    /\ done = {}
    /\ activities = <<>>
    /\ new_activities = <<>>
    /\ storeMissing = FALSE
    /\ scans = [ s \in SessionIds |-> 0 ]
    /\ settled = FALSE
    /\ InitNoTools

InitNoMerge == mergeS = <<>> /\ mergeA = <<>> /\ mergeB = <<>> /\ mergeOut = <<>>

\* the specifications of the pipeline leave the metadata files out
InitNoMeta == dataMeta = NoMeta /\ rootMeta = NoMeta /\ now = 0 /\ lastOp = "none"

Init == InitFiles /\ caller = "cli" /\ InitNoMerge /\ InitNoMeta

MonitorNext ==
    \/ \E s \in SessionIds, line \in EnvLines : AppendLine(s, line)
    \/ \E s \in SessionIds : Age(s)
    \/ MainScan
    \/ MainLoadFails
    \/ MainWriteStore
    \/ \E ok \in BOOLEAN : MainPublish(ok)
    \/ MainSave
    \/ SaveInterrupted
    \/ Abort

Next == MonitorNext

Spec == Init /\ [][Next]_vars

(***************************************************************************)
(* The auto tracker's loop: every cycle calls session_monitor.main.        *)
(***************************************************************************)
TrackerInit == InitFiles /\ caller = "idle" /\ InitNoMerge /\ InitNoMeta

TrackerNext ==
    \/ \E commits \in CommitLogs : TrackerStart(commits)
    \/ TrackerFinish
    \/ MonitorNext

SpecTracker == TrackerInit /\ [][TrackerNext]_vars

(***************************************************************************)
(* The two merges as functions of a store and of batches: the store starts *)
(* as mergeS and batches are merged into it one after the other, all by    *)
(* auto_tracker ("tracker") or all by session_monitor ("monitor").         *)
(***************************************************************************)
MaxBatch == 2       \* entries in the store and in the first batch

\* session_monitor.main, lines 396 and 410-414: nothing is merged for no activity
MonitorMerge(entries, log_entries) ==
    IF log_entries # <<>> THEN ExtendSort(entries, log_entries) ELSE entries

MergeEntry(id, ms) ==
    [id |-> <<"auto", id>>, timestamp |-> isoformat(ms), agent |-> "nox", type |-> "other",
     description |-> "work", source |-> "git_commit"]

MergeEntries == { MergeEntry(id, ms) : id \in {1, 2}, ms \in {1000, 2000} }

SeqsUpTo(S, n) == UNION { [1..k -> S] : k \in 0..n }

MergeInput(name) ==
    IF name = "A" THEN mergeA ELSE IF name = "B" THEN mergeB ELSE mergeA \o mergeB

MergeWith(impl, entries, new) ==
    IF impl = "tracker" THEN TrackerMerge(entries, new) ELSE MonitorMerge(entries, new)

MergeStep(impl, name) ==
    /\ caller = "merging"
    /\ mergeOut.impl \in {"none", impl}
    /\ \/ mergeOut.steps = <<>> /\ name \in {"A", "AB"}
       \/ mergeOut.steps = <<"A">> /\ name \in {"A", "B"}
    /\ mergeOut' = [impl |-> impl, steps |-> Append(mergeOut.steps, name),
                    store |-> MergeWith(impl, mergeOut.store, MergeInput(name))]
    /\ UNCHANGED <<sessionVars, wmFile, storeFile, monitorVars, aborts, done, trackerVars,
                   mergeS, mergeA, mergeB, metaVars, storeMissing, scans, settled, toolVars>>

MergeInit ==
    /\ InitFiles
    /\ wmFile.shape = "dict"
    /\ caller = "merging"
    /\ mergeS \in SeqsUpTo(MergeEntries, MaxBatch)
    /\ mergeA \in SeqsUpTo(MergeEntries, MaxBatch)
    /\ mergeB \in SeqsUpTo(MergeEntries, 1)
    /\ mergeOut = [impl |-> "none", steps |-> <<>>, store |-> mergeS]
    /\ InitNoMeta

MergeNext == \E impl \in {"tracker", "monitor"}, name \in {"A", "B", "AB"} : MergeStep(impl, name)

SpecMerge == MergeInit /\ [][MergeNext]_vars

(***************************************************************************)
(* The writers of the metadata copies, one step per call.                  *)
(***************************************************************************)
\* what a scan at time t hands to the merge: n activities of one instant
ScannedAt(t, n) ==
    [ k \in 1..n |->
        [act |-> Activity("file_write", "main", "Created/updated file",
                          [fmt |-> "num", ms |-> t]),
         line |-> <<session_id(SessionFiles[1]), k>>] ]

\* session_monitor.main with activities found, lines 389 and 396-436: the
\* store and data/meta.json are written; meta.json is not touched
MainCycle(n) ==
    /\ caller = "meta"
    /\ now < MaxClock
    /\ LET t == now + 1
           entries == ExtendSort(storeFile, LogEntries(ScannedAt(t, n)))
       IN  /\ storeFile' = entries
           /\ dataMeta' = MainMeta(load_meta(dataMeta, t), entries, t)
    /\ lastOp' = "main"
    /\ now' = now + 1
    /\ UNCHANGED <<sessionVars, wmFile, monitorVars, aborts, done, trackerVars, mergeVars,
                   rootMeta, storeMissing, scans, settled, toolVars>>

\* deduplicate_activities reads activity['id'] of every entry
HasIds(entries) == \A k \in 1..Len(entries) : "id" \in DOMAIN entries[k]

\* auto_tracker.save_activity_log, lines 72-77: the whole file is replaced
TrackerMeta(acts, t) ==
    [exists |-> TRUE, totalActivities |-> Len(acts), lastUpdated |-> <<t, "+00:00">>,
     hasTag |-> FALSE, cacheBust |-> <<>>]

\* auto_tracker.save_activity_log as run_monitoring_cycle calls it (lines
\* 267-278): the store and meta.json are written; data/meta.json is not touched
save_activity_log(commits) ==
    /\ caller = "meta"
    /\ now < MaxClock
    /\ commits # <<>>
    /\ HasIds(storeFile)
    /\ LET acts == ExtendDedupSort(load_activity_log(storeFile), CommitActivities(commits))
       IN  /\ storeFile' = acts
           /\ rootMeta' = TrackerMeta(acts, now + 1)
    /\ lastOp' = "save_activity_log"
    /\ now' = now + 1
    /\ UNCHANGED <<sessionVars, wmFile, monitorVars, aborts, done, trackerVars, mergeVars,
                   dataMeta, storeMissing, scans, settled, toolVars>>

\* auto_logger._fallback_git_log, lines 109-121: the entry has no 'id'
FallbackEntry(t) ==
    [timestamp |-> RawIso(1000 * t), category |-> "youtube", type |-> "task",
     title |-> "work", content |-> "work", source |-> "auto-logger", agent |-> "main"]

\* lines 129-142
FallbackMeta(meta, entries, t) ==
    LET held == IF meta.exists THEN meta
                ELSE [exists |-> TRUE, totalActivities |-> 0, lastUpdated |-> NowZ(t),
                      hasTag |-> FALSE, cacheBust |-> <<>>]
    IN  [held EXCEPT !.lastUpdated = NowZ(t), !.totalActivities = Len(entries)]

\* lines 158-164: the digits before a '-', plus one; a time-derived tag on a
\* ValueError; no tag for a file that has none
FallbackTag(root_meta, t) ==
    LET cache_str == BeforeDash(replace_v(root_meta.cacheBust))
    IN  IF ~root_meta.hasTag THEN root_meta.cacheBust
        ELSE IF IsInt(cache_str) THEN <<"v">> \o Format04d(int(cache_str) + 1)
        ELSE <<"v">> \o strftime(t, 8)

\* lines 152-168: meta.json is updated only if it exists
FallbackRootMeta(root_meta, meta, t) ==
    IF root_meta.exists
    THEN [root_meta EXCEPT !.lastUpdated = meta.lastUpdated,
                           !.totalActivities = meta.totalActivities,
                           !.cacheBust = FallbackTag(root_meta, t)]
    ELSE root_meta

\* auto_logger._fallback_git_log, lines 102-168
fallback_git_log ==
    /\ caller = "meta"
    /\ now < MaxClock
    /\ LET t == now + 1
           entries == Append(storeFile, FallbackEntry(t))
           meta == FallbackMeta(dataMeta, entries, t)
       IN  /\ storeFile' = entries
           /\ dataMeta' = meta
           /\ rootMeta' = FallbackRootMeta(rootMeta, meta, t)
    /\ lastOp' = "fallback"
    /\ now' = now + 1
    /\ UNCHANGED <<sessionVars, wmFile, monitorVars, aborts, done, trackerVars, mergeVars, storeMissing, scans, settled, toolVars>>

\* tags the metadata files are found with: "v0000", "v0007", "v0012-ab", "vx"
InitTags == { DefaultTag, <<"v", "0", "0", "0", "7">>,
              <<"v", "0", "0", "1", "2", "-", "a", "b">>, <<"v", "x">> }

InitMetas ==
    { NoMeta, [NoMeta EXCEPT !.exists = TRUE] } \cup
    { [NoMeta EXCEPT !.exists = TRUE, !.hasTag = TRUE, !.cacheBust = tag] : tag \in InitTags }

MetaInit ==
    /\ InitFiles
    /\ wmFile.shape = "dict"
    /\ caller = "meta"
    /\ InitNoMerge
    /\ dataMeta \in InitMetas
    /\ rootMeta \in InitMetas
    /\ now = 0
    /\ lastOp = "none"

MetaNext ==
    \/ \E n \in 1..MaxBatch : MainCycle(n)
    \/ \E commits \in CommitLogs : save_activity_log(commits)
    \/ fallback_git_log
    \/ sync_meta_files

SpecMeta == MetaInit /\ [][MetaNext]_vars

(***************************************************************************)
(* session_monitor.main over watermark files of every legacy shape and     *)
(* session files of any modification time, one step per call of main:      *)
(* load_session_timestamps, scan_sessions, then the writes.                *)
(***************************************************************************)
LegacyValues ==
    { Absent, [t |-> "null", v |-> 0], [t |-> "list", v |-> 1], Num(Inf),
      [t |-> "str", v |-> MaxTs], [t |-> "str", v |-> -2] } \cup
    { Num(n) : n \in 0..MaxTs } \cup { [t |-> "bool", v |-> b] : b \in {0, 1} }

LoadInit ==
    /\ files \in [ SessionIds -> { <<>>, << ToolLine(MaxTs) >> } ]
    /\ mtime \in [ SessionIds -> 0..MaxTs ]
    /\ stale \in [ SessionIds -> BOOLEAN ]
    /\ wmFile \in { DictFile(map) : map \in [ SessionIds -> LegacyValues ] } \cup
                  { ListFile(ids) : ids \in SUBSET SessionIds }
    /\ storeFile = <<>>
    /\ pc = "idle"
    /\ SESSION_TIMESTAMPS = NoTimestamps
    /\ batch = <<>>
    /\ aborts = 0
    /\ done = {}
    /\ activities = <<>>
    /\ new_activities = <<>>
    /\ storeMissing \in BOOLEAN
    /\ scans = [ s \in SessionIds |-> 0 ]
    /\ settled = FALSE
    /\ InitNoTools
    /\ caller = "load"
    /\ InitNoMerge
    /\ InitNoMeta

\* line 384
LoadTimestamps ==
    /\ pc = "idle"
    /\ caller = "load"
    /\ SESSION_TIMESTAMPS' = load_session_timestamps(wmFile)
    /\ pc' = "loaded"
    /\ UNCHANGED <<sessionVars, wmFile, storeFile, batch, aborts, done, trackerVars,
                   mergeVars, metaVars, storeMissing, scans, settled, toolVars>>

MaxScans == 2       \* calls of parse_session_transcript counted per session

\* lines 290 and 295: the file is handed to parse_session_transcript
Parsed(s, timestamps) ==
    ~(Unmodified(mtime[s], timestamps[s]) \/ TooOld(stale[s], timestamps[s]))

\* line 394
ScanLoaded ==
    /\ pc = "loaded"
    /\ \A s \in SessionIds : Parsed(s, SESSION_TIMESTAMPS) => scans[s] < MaxScans
    /\ LET r == scan_sessions(files, mtime, stale, SESSION_TIMESTAMPS)
       IN  /\ SESSION_TIMESTAMPS' = r.timestamps
           /\ batch' = r.activities
    /\ scans' = [ s \in SessionIds |->
                    IF Parsed(s, SESSION_TIMESTAMPS) THEN scans[s] + 1 ELSE scans[s] ]
    /\ pc' = "scanned"
    /\ UNCHANGED <<sessionVars, wmFile, storeFile, aborts, done, trackerVars, mergeVars,
                   metaVars, storeMissing, settled, toolVars>>

\* lines 404-407: open(log_file, 'r') raises FileNotFoundError when the store
\* does not exist; main ends there
MainStoreMissing ==
    /\ pc = "scanned"
    /\ batch # <<>>
    /\ storeMissing
    /\ pc' = "idle"
    /\ SESSION_TIMESTAMPS' = NoTimestamps
    /\ batch' = <<>>
    /\ Returned
    /\ UNCHANGED <<sessionVars, wmFile, storeFile, aborts, done, activities, new_activities,
                   mergeVars, metaVars, storeMissing, scans, settled, toolVars>>

\* lines 442-460: subprocess.run raises FileNotFoundError when git is not
\* installed (or repo_dir is gone); only CalledProcessError is caught
MainPublishRaises ==
    /\ pc = "stored"
    /\ aborts < MaxAborts
    /\ aborts' = aborts + 1
    /\ pc' = "idle"
    /\ SESSION_TIMESTAMPS' = NoTimestamps
    /\ batch' = <<>>
    /\ Returned
    /\ UNCHANGED <<sessionVars, wmFile, storeFile, done, activities, new_activities,
                   mergeVars, metaVars, storeMissing, scans, settled, toolVars>>

LoadNext ==
    \/ LoadTimestamps
    \/ ScanLoaded
    \/ MainWriteStore
    \/ MainStoreMissing
    \/ \E ok \in BOOLEAN : MainPublish(ok)
    \/ MainPublishRaises
    \/ MainSave

SpecLoad == LoadInit /\ [][LoadNext]_vars

(***************************************************************************)
(* session_monitor.main over transcripts of every kind of line: lines that *)
(* are no JSON, JSON that is no object, entries without a timestamp, with  *)
(* a numeric or an ISO timestamp, tool calls of every tool name and exec   *)
(* commands, text items, each naming an agent of its own in its content.   *)
(* The files are newer than every watermark, so every cycle parses them.   *)
(***************************************************************************)
MaxLines == 2       \* lines of the first session file

NumTs(ms) == [fmt |-> "num", ms |-> ms]

IsoTs(ms) == [fmt |-> "iso", ms |-> ms]

NoTs == [fmt |-> "none", ms |-> 0]

ContentAgent == "sage"

ToolCall(name, command, timestamp) ==
    [json |-> "object", timestamp |-> timestamp, role |-> "assistant",
     content |-> << [type |-> "toolCall", name |-> name, command |-> command, text |-> ""] >>,
     agent |-> ContentAgent]

Text(text, timestamp) ==
    [json |-> "object", timestamp |-> timestamp, role |-> "assistant",
     content |-> << [type |-> "text", name |-> "", command |-> "", text |-> text] >>,
     agent |-> ContentAgent]

\* a line json.loads rejects
NotJson ==
    [json |-> "invalid", timestamp |-> NoTs, role |-> "", content |-> <<>>,
     agent |-> ContentAgent]

\* a line such as [1, 2]: valid JSON, no object
NotObject ==
    [json |-> "other", timestamp |-> NoTs, role |-> "", content |-> <<>>,
     agent |-> ContentAgent]

\* {"timestamp": ..., "role": "assistant", "content": null}
NullContent(timestamp) ==
    [json |-> "null_content", timestamp |-> timestamp, role |-> "assistant",
     content |-> <<>>, agent |-> ContentAgent]

\* one entry with two tool calls
TwoCalls(timestamp) ==
    [json |-> "object", timestamp |-> timestamp, role |-> "assistant",
     content |-> << [type |-> "toolCall", name |-> "write", command |-> "", text |-> ""],
                    [type |-> "toolCall", name |-> "edit", command |-> "", text |-> ""] >>,
     agent |-> ContentAgent]

OtherTools == {"edit", "browser", "web_fetch", "sessions_spawn", "message", "cron", "read"}

Commands == {"ls", "cat notes.py", "python run.py", "./build.sh", "python tools.py", "npm test"}

ParseLines ==
    {NotJson, NotObject, ToolCall("write", "", NoTs), ToolCall("write", "", IsoTs(MaxTs))} \cup
    { ToolCall("write", "", NumTs(ts)) : ts \in 1..MaxTs } \cup
    { ToolCall(name, "", NumTs(MaxTs)) : name \in OtherTools } \cup
    { ToolCall("exec", command, NumTs(MaxTs)) : command \in Commands } \cup
    { Text(text, NumTs(MaxTs)) :
        text \in {"spawned subagent", "Spawned Subagent", "working on it"} } \cup
    { NullContent(NumTs(1)), TwoCalls(NumTs(MaxTs)) }

ParseInit ==
    /\ files \in { [ s \in SessionIds |-> IF s = <<"main", "s1">> THEN first ELSE second ] :
                     first \in SeqsUpTo(ParseLines, MaxLines),
                     second \in { <<>>, << ToolCall("write", "", NumTs(1)) >> } }
    /\ mtime = [ s \in SessionIds |-> MaxTs + 1 ]
    /\ stale = [ s \in SessionIds |-> FALSE ]
    /\ wmFile \in { DictFile([ s \in SessionIds |->
                                  IF s = <<"main", "s1">> THEN Num(n) ELSE Absent ]) :
                      n \in 0..1 }
    /\ storeFile = <<>>
    /\ pc = "idle"
    /\ SESSION_TIMESTAMPS = NoTimestamps
    /\ batch = <<>>
    /\ aborts = 0
    /\ done = {}
    /\ activities = <<>>
    /\ new_activities = <<>>
    /\ storeMissing = FALSE
    /\ scans = [ s \in SessionIds |-> 0 ]
    /\ settled = FALSE
    /\ InitNoTools
    /\ caller = "load"
    /\ InitNoMerge
    /\ InitNoMeta

ParseNext ==
    \/ LoadTimestamps
    \/ ScanLoaded
    \/ MainWriteStore
    \/ \E ok \in BOOLEAN : MainPublish(ok)
    \/ MainSave

SpecParse == ParseInit /\ [][ParseNext]_vars

(***************************************************************************)
(* task_queue.py: one TaskQueue over data/task_queue.json.  Every call     *)
(* that changes a task ends by save(), which rewrites the file from        *)
(* self.tasks.                                                             *)
(***************************************************************************)
MaxTasks == 2       \* tasks added to the queue

\* a field that holds None
None == <<>>

\* line 62: task_<%Y%m%d_%H%M%S>_<len(self.tasks)>
TaskId(t, n) == [at |-> t, n |-> n]

\* lines 64-73, with the defaults of the dataclass, lines 23-24
Task(id, t) ==
    [id |-> id, status |-> "pending", created_at |-> NowZ(t),
     started_at |-> None, completed_at |-> None]

\* lines 84 and 104: task_id in self.tasks
InQueue(ts, task_id) == \E i \in DOMAIN ts : ts[i].id = task_id

\* the times the clock can show at a call
ClockAt(t) == { u \in t..(t + 1) : u <= MaxClock }

\* lines 75-76
AddTask(ts, t) == Append(ts, Task(TaskId(t, Len(ts)), t))

StartTask_KeepsOthers(ts, task_id, t) ==
    [ i \in DOMAIN ts |->
        IF ts[i].id = task_id
        THEN [ts[i] EXCEPT !.status = "in_progress", !.started_at = NowZ(t)]
        ELSE ts[i] ]

\* lines 88-96: every task in progress goes back to pending, then the task starts
StartTask(ts, task_id, t) ==
    LET reset == [ i \in DOMAIN ts |->
                     IF ts[i].status = "in_progress"
                     THEN [ts[i] EXCEPT !.status = "pending", !.started_at = None]
                     ELSE ts[i] ]
    IN  [ i \in DOMAIN ts |->
            IF reset[i].id = task_id
            THEN [reset[i] EXCEPT !.status = "in_progress", !.started_at = NowZ(t)]
            ELSE reset[i] ]

\* lines 108-110
CompleteTask(ts, task_id, t) ==
    [ i \in DOMAIN ts |->
        IF ts[i].id = task_id
        THEN [ts[i] EXCEPT !.status = "completed", !.completed_at = NowZ(t)]
        ELSE ts[i] ]

\* the ids a caller passes: those of the queue and one the queue does not hold
TaskIds == { tasks[i].id : i \in DOMAIN tasks } \cup { TaskId(now, Len(tasks)) }

\* TaskQueue.add_task, lines 58-81
add_task ==
    /\ caller = "queue"
    /\ Len(tasks) < MaxTasks
    /\ \E t \in ClockAt(now) :
          /\ tasks' = AddTask(tasks, t)
          /\ now' = t
    /\ queueFile' = tasks'
    /\ UNCHANGED <<sessionVars, wmFile, storeFile, monitorVars, aborts, done, trackerVars,
                   mergeVars, dataMeta, rootMeta, lastOp, storeMissing, scans, settled,
                   loopVars, dashboard>>

\* TaskQueue.start_task, lines 82-100
start_task ==
    /\ caller = "queue"
    /\ \E task_id \in TaskIds, t \in ClockAt(now) :
          /\ now' = t
          /\ IF InQueue(tasks, task_id)
             THEN /\ tasks' = StartTask(tasks, task_id, t)
                  /\ queueFile' = tasks'
             ELSE UNCHANGED queueVars
    /\ UNCHANGED <<sessionVars, wmFile, storeFile, monitorVars, aborts, done, trackerVars,
                   mergeVars, dataMeta, rootMeta, lastOp, storeMissing, scans, settled,
                   loopVars, dashboard>>

\* TaskQueue.complete_task, lines 102-114
complete_task ==
    /\ caller = "queue"
    /\ \E task_id \in TaskIds, t \in ClockAt(now) :
          /\ now' = t
          /\ IF InQueue(tasks, task_id)
             THEN /\ tasks' = CompleteTask(tasks, task_id, t)
                  /\ queueFile' = tasks'
             ELSE UNCHANGED queueVars
    /\ UNCHANGED <<sessionVars, wmFile, storeFile, monitorVars, aborts, done, trackerVars,
                   mergeVars, dataMeta, rootMeta, lastOp, storeMissing, scans, settled,
                   loopVars, dashboard>>

\* TaskQueue.__init__ where the file does not exist, lines 35-46
QueueInit ==
    /\ InitFiles
    /\ wmFile.shape = "dict"
    /\ caller = "queue"
    /\ InitNoMerge
    /\ InitNoMeta

QueueNext == add_task \/ start_task \/ complete_task

SpecQueue == QueueInit /\ [][QueueNext]_vars

(***************************************************************************)
(* auto_tracker.main: the monitoring loop.  A cycle is run_monitoring_     *)
(* cycle over session files that hold nothing new, so what it saves are    *)
(* the commits it finds.  Each call the loop makes returns: the git calls  *)
(* of the cycle carry timeouts and the sleep lasts 300 seconds.            *)
(***************************************************************************)
MaxCycles == 3      \* cycles the loop starts

\* the operator creates STOP_AUTO_TRACKER, as line 304 tells them to
CreateStop ==
    /\ caller = "loop"
    /\ ~STOP_FILE
    /\ STOP_FILE' = TRUE
    /\ UNCHANGED <<sessionVars, wmFile, storeFile, monitorVars, aborts, done, trackerVars,
                   mergeVars, metaVars, storeMissing, scans, settled,
                   queueVars, loopPc, cycles, raised, dashboard>>

LoopCheck_IgnoresStop ==
    /\ caller = "loop"
    /\ loopPc = "check"
    /\ cycles < MaxCycles
    /\ loopPc' = "cycle"
    /\ cycles' = cycles + 1
    /\ UNCHANGED <<sessionVars, wmFile, storeFile, monitorVars, aborts, done, trackerVars,
                   mergeVars, metaVars, storeMissing, scans, settled,
                   queueVars, STOP_FILE, raised, dashboard>>

\* lines 323-331: the head of the loop, up to the call of run_monitoring_cycle
LoopCheck ==
    /\ caller = "loop"
    /\ loopPc = "check"
    /\ IF STOP_FILE
       THEN /\ STOP_FILE' = FALSE
            /\ loopPc' = "stopped"
            /\ UNCHANGED cycles
       ELSE /\ cycles < MaxCycles
            /\ loopPc' = "cycle"
            /\ cycles' = cycles + 1
            /\ UNCHANGED STOP_FILE
    /\ UNCHANGED <<sessionVars, wmFile, storeFile, monitorVars, aborts, done, trackerVars,
                   mergeVars, metaVars, storeMissing, scans, settled,
                   queueVars, raised, dashboard>>

\* line 331 and run_monitoring_cycle, lines 261-278: the cycle returns
CycleReturns(commits) ==
    /\ caller = "loop"
    /\ loopPc = "cycle"
    /\ storeFile' = TrackerMerge(load_activity_log(storeFile), CommitActivities(commits))
    /\ loopPc' = "sleep"
    /\ UNCHANGED <<sessionVars, wmFile, monitorVars, aborts, done, trackerVars,
                   mergeVars, metaVars, storeMissing, scans, settled,
                   queueVars, STOP_FILE, cycles, raised, dashboard>>

\* lines 332-333: a call of the cycle raises an Exception before the store is
\* saved; the loop prints it
CycleRaises ==
    /\ caller = "loop"
    /\ loopPc = "cycle"
    /\ raised' = raised + 1
    /\ loopPc' = "sleep"
    /\ UNCHANGED <<sessionVars, wmFile, storeFile, monitorVars, aborts, done, trackerVars,
                   mergeVars, metaVars, storeMissing, scans, settled,
                   queueVars, STOP_FILE, cycles, dashboard>>

\* line 337: time.sleep(300) returns
Wake ==
    /\ caller = "loop"
    /\ loopPc = "sleep"
    /\ loopPc' = "check"
    /\ UNCHANGED <<sessionVars, wmFile, storeFile, monitorVars, aborts, done, trackerVars,
                   mergeVars, metaVars, storeMissing, scans, settled,
                   queueVars, STOP_FILE, cycles, raised, dashboard>>

\* the loop is entered, lines 299-321
LoopInit ==
    /\ InitFiles
    /\ wmFile.shape = "dict"
    /\ caller = "loop"
    /\ InitNoMerge
    /\ InitNoMeta

CycleEnds == CycleRaises \/ \E commits \in CommitLogs : CycleReturns(commits)

LoopNext ==
    \/ CreateStop
    \/ LoopCheck
    \/ \E commits \in CommitLogs : CycleReturns(commits)
    \/ CycleRaises
    \/ Wake

\* the process keeps running: the test of the STOP file, the cycle and the
\* sleep each come to their end
SpecLoop ==
    /\ LoopInit
    /\ [][LoopNext]_vars
    /\ WF_vars(LoopCheck)
    /\ WF_vars(CycleEnds)
    /\ WF_vars(Wake)

(***************************************************************************)
(* auto_logger.log_activity: the dashboard API first, the local activity   *)
(* log (_fallback_git_log) otherwise.  How a call of the API ends:         *)
(*   unavailable  import api_logger failed, no request is made             *)
(*   created      the response has status 201 and a JSON body              *)
(*   other_2xx    the response has another status below 400                *)
(*   http_error   raise_for_status raises for a status from 400 on         *)
(*   timeout      no response within 10 seconds                            *)
(*   raises       create_entry raises what is no RequestException          *)
(***************************************************************************)
ApiOutcomes == {"unavailable", "created", "other_2xx", "http_error", "timeout", "raises"}

\* whether the dashboard has stored the entry when the call ends that way: it
\* has when it answers 201, it may have when it answers another status below
\* 400 or when its answer does not arrive in time
MayStore(outcome) ==
    IF outcome = "created" THEN {TRUE}
    ELSE IF outcome \in {"other_2xx", "timeout"} THEN BOOLEAN
    ELSE {FALSE}

\* api_logger.create_entry, lines 34-43, as log_activity calls it (lines 257-263)
ApiEntry ==
    [category |-> "youtube", type |-> "task", title |-> "task: work", content |-> "work",
     source |-> "auto-logger"]

\* api_logger.create_entry, lines 57-70: the success it reports
create_entry(outcome) == outcome = "created"

\* auto_logger.log_activity, lines 218-275
log_activity ==
    /\ caller = "log"
    /\ now < MaxClock
    /\ \E outcome \in ApiOutcomes : \E stored \in MayStore(outcome) :
          /\ dashboard' = IF stored THEN Append(dashboard, ApiEntry) ELSE dashboard
          /\ IF outcome \notin {"unavailable", "raises"} /\ create_entry(outcome)
             THEN UNCHANGED <<storeFile, dataMeta, rootMeta, lastOp>>
             ELSE LET t == now + 1
                      entries == Append(storeFile, FallbackEntry(t))
                      meta == FallbackMeta(dataMeta, entries, t)
                  IN  /\ storeFile' = entries
                      /\ dataMeta' = meta
                      /\ rootMeta' = FallbackRootMeta(rootMeta, meta, t)
                      /\ lastOp' = "fallback"
    /\ now' = now + 1
    /\ UNCHANGED <<sessionVars, wmFile, monitorVars, aborts, done, trackerVars, mergeVars,
                   storeMissing, scans, settled, queueVars, loopVars>>

LogInit ==
    /\ InitFiles
    /\ wmFile.shape = "dict"
    /\ caller = "log"
    /\ InitNoMerge
    /\ dataMeta \in InitMetas
    /\ rootMeta \in InitMetas
    /\ now = 0
    /\ lastOp = "none"

LogNext == log_activity

SpecLog == LogInit /\ [][LogNext]_vars

(***************************************************************************)
(* Properties                                                              *)
(***************************************************************************)
Range(seq) == { seq[k] : k \in 1..Len(seq) }

Count(seq, e) == Cardinality({ k \in 1..Len(seq) : seq[k] = e })

Ids(entries) == { entries[k].id : k \in 1..Len(entries) }

UniqueIds(entries) == \A i, j \in 1..Len(entries) : entries[i].id = entries[j].id => i = j

Ascending(entries) ==
    \A i, j \in 1..Len(entries) : i < j => ~StrLess(entries[j].timestamp, entries[i].timestamp)

\* the line an activity of the batch was built from
LineOf(a) == files[a.line[1]][a.line[2]]

\* C1: the watermark the file holds for a session never decreases from one
\* write of the file to the next (a truncated file holds no watermark and is
\* never loaded).
C1_WatermarkMonotone ==
    [][ (wmFile.shape # "corrupt" /\ wmFile'.shape # "corrupt")
        => \A s \in SessionIds : NumLeq(Persisted(wmFile, s), Persisted(wmFile', s)) ]_vars

\* a later scan has kept the watermark MaxTs of a session whose last line has
\* a lower timestamp
C1_Witness ==
    \E s \in SessionIds :
        /\ pc = "scanned"
        /\ <<s, 1>> \in done
        /\ Len(files[s]) = 2
        /\ files[s][2].timestamp.ms < MaxTs
        /\ Persisted(wmFile, s) = MaxTs
        /\ SESSION_TIMESTAMPS[s] = MaxTs

\* C2: every activity a scan returns was built from a line whose normalized
\* timestamp is above the watermark the scan was given, and from no line that
\* a cycle which ran to its end has classified before.
C2_NoReclassification ==
    pc # "idle" =>
        \A k \in 1..Len(batch) :
            /\ NumLess(Persisted(wmFile, batch[k].line[1]), Normalize(LineOf(batch[k]).timestamp))
            /\ batch[k].line \notin done

\* a scan classifies the second line of a session whose first line was
\* classified by an earlier cycle
C2_Witness ==
    \E s \in SessionIds :
        /\ pc = "scanned"
        /\ <<s, 1>> \in done
        /\ \E k \in 1..Len(batch) : batch[k].line = <<s, 2>>

\* C8: whenever the watermark file is written, the store write of the cycle
\* has been done (or the cycle classified nothing) and the store holds the
\* entry of every activity of the cycle; so a cycle that stops before its
\* store write leaves the watermark file as it was.
C8_StoreBeforeWatermark ==
    [][ wmFile' # wmFile
        => /\ batch = <<>> \/ pc = "published"
           /\ \A k \in 1..Len(batch) : convert_to_log_entry(batch[k].act) \in Range(storeFile) ]_vars

\* one cycle was stopped and another has written store and watermarks
C8_Witness ==
    /\ pc = "idle"
    /\ aborts = 1
    /\ done # {}
    /\ storeFile # <<>>
    /\ \E s \in SessionIds : NumLess(0, Persisted(wmFile, s)) /\ Persisted(wmFile, s) # Inf

\* the activities the session files hold, as store entries, with their places
Producers(e) ==
    { p \in { <<s, i>> : s \in SessionIds, i \in 1..MaxEvents } :
        /\ p[2] <= Len(files[p[1]])
        /\ \E a \in Range(LineActivities(files[p[1]][p[2]], p[1][1], p)) :
               convert_to_log_entry(a.act) = e }

\* C3: after every completed cycle no two entries of the store have the same
\* id (here: with no cycle ever stopped).
C3_UniqueIds == (pc = "idle" /\ aborts = 0) => UniqueIds(storeFile)

\* C4: the store is in ascending timestamp order after every merge that
\* writes it (here: with no cycle ever stopped).
C4_Ascending == aborts = 0 => Ascending(storeFile)

\* C5: merging the same batch a second time leaves the store as the first
\* merge left it, with either merge.
C5_Idempotent ==
    mergeOut.steps = <<"A", "A">> => mergeOut.store = MergeWith(mergeOut.impl, mergeS, mergeA)

\* C9: after a cycle that ran to its end, the store holds no more copies of an
\* entry than there are events producing it, also when an earlier cycle was
\* stopped between its store write and its watermark write.
C9_NoDoubleCounting ==
    pc = "idle" => \A e \in Range(storeFile) : Count(storeFile, e) <= Cardinality(Producers(e))

\* C10: an id the store holds is in the store after every later step (here:
\* with no cycle ever stopped).
C10_IdsKept == [][ aborts' = 0 => Ids(storeFile) \subseteq Ids(storeFile') ]_vars

FirstWithId(entries, id) ==
    entries[CHOOSE k \in 1..Len(entries) :
                /\ entries[k].id = id
                /\ \A j \in 1..(k - 1) : entries[j].id # id]

\* C6: when auto_tracker merges a batch, an id that the store and the batch
\* both hold has exactly one entry in the merged store: the first one of the
\* store.
C6_ExistingWins ==
    (mergeOut.impl = "tracker" /\ mergeOut.steps = <<"A">>) =>
        \A id \in Ids(mergeS) \cap Ids(mergeA) :
            /\ Cardinality({ k \in 1..Len(mergeOut.store) : mergeOut.store[k].id = id }) = 1
            /\ FirstWithId(mergeS, id) \in Range(mergeOut.store)

\* the batch holds another entry under an id of the store
C6_Witness ==
    /\ mergeOut.impl = "tracker"
    /\ mergeOut.steps = <<"A">>
    /\ \E a \in Range(mergeA) : a.id \in Ids(mergeS) /\ a \notin Range(mergeS)
    /\ Len(mergeOut.store) = 2

\* C7: merging batch A and then batch B leaves the store that merging A ++ B
\* in one step leaves, with either merge.
C7_SplitBatch ==
    mergeOut.steps = <<"A", "B">> =>
        mergeOut.store = MergeWith(mergeOut.impl, mergeS, mergeA \o mergeB)

\* auto_tracker has merged two batches that share an id and a timestamp with
\* the store
C7_Witness ==
    /\ mergeOut.impl = "tracker"
    /\ mergeOut.steps = <<"A", "B">>
    /\ mergeA # <<>> /\ mergeB # <<>>
    /\ mergeB[1].id \in Ids(mergeS) \cup Ids(mergeA)
    /\ \E a \in Range(mergeA) : a.timestamp = mergeB[1].timestamp /\ a.id # mergeB[1].id
    /\ Len(mergeOut.store) = 2

(***************************************************************************)
(* Metadata synchroniser                                                   *)
(***************************************************************************)
\* the integer a copy's tag embeds, 0 for a copy without tag ("v0000")
TagNumber(meta) == int(replace_v(current_cache(meta)))

SyncValueErrors == {"sync: ValueError, nothing written", "sync: ValueError, data/meta.json written"}

\* C11: when sync_meta_files has run to its end, totalActivities of both
\* metadata copies is the number of entries of the store, whatever the copies
\* held before.
C11_SyncRecounts ==
    lastOp = "sync" =>
        /\ dataMeta.totalActivities = Len(storeFile)
        /\ rootMeta.totalActivities = Len(storeFile)

\* a sync right after one writer has put two entries into the store and their
\* count into one copy only
C11_Witness ==
    /\ lastOp = "sync"
    /\ now = 2
    /\ Len(storeFile) = 2
    /\ rootMeta.totalActivities = 2

\* C12: after every operation that writes the store or the metadata, both
\* copies (when both files are there) carry the same totalActivities and lastUpdated, and totalActivities
\* is the length of the store.
C12_CopiesAgree ==
    (lastOp \in {"main", "save_activity_log", "fallback", "sync"}
        /\ dataMeta.exists /\ rootMeta.exists) =>
        /\ dataMeta.totalActivities = Len(storeFile)
        /\ rootMeta.totalActivities = Len(storeFile)
        /\ dataMeta.lastUpdated = rootMeta.lastUpdated

\* C13: a sync that runs to its end leaves in each copy a tag that differs from
\* the one it found there, and whose integer is the former one plus one.
C13_TagBumped ==
    [][ lastOp' = "sync" =>
          /\ dataMeta'.cacheBust # dataMeta.cacheBust
          /\ rootMeta'.cacheBust # rootMeta.cacheBust
          /\ TagNumber(dataMeta') = TagNumber(dataMeta) + 1
          /\ TagNumber(rootMeta') = TagNumber(rootMeta) + 1 ]_vars

\* a sync has bumped "v0007" to "v0008" in data/meta.json
C13_Witness ==
    /\ lastOp = "sync"
    /\ now = 1
    /\ dataMeta.cacheBust = <<"v", "0", "0", "0", "8">>

\* C14: after a sync, both copies hold the same tag.
C14_SameTag == lastOp = "sync" => dataMeta.cacheBust = rootMeta.cacheBust

\* C15: a sync that meets a tag it cannot parse still writes both copies, with
\* the count of the store and the time of the sync.
C15_UnparsableTagTolerated ==
    lastOp \in SyncValueErrors =>
        /\ dataMeta.totalActivities = Len(storeFile)
        /\ rootMeta.totalActivities = Len(storeFile)
        /\ dataMeta.lastUpdated = NowZ(now)
        /\ rootMeta.lastUpdated = NowZ(now)

(***************************************************************************)
(* Watermark store, legacy shapes                                          *)
(***************************************************************************)
SessionOf(k) == batch[k].line[1]

\* C16: a legacy list loads as +inf for each of its ids; a session whose
\* watermark is +inf yields no activity in any scan, whatever its file holds
\* and whenever it was written, and its watermark is +inf again in every file
\* main saves.
C16_LegacyListSkipped ==
    [][ \A s \in SessionIds :
          /\ (wmFile.shape = "list" /\ s \in wmFile.ids) => Persisted(wmFile, s) = Inf
          /\ Persisted(wmFile, s) = Inf =>
                /\ \A k \in 1..Len(batch') : batch'[k].line[1] # s
                /\ pc' = "scanned" => SESSION_TIMESTAMPS'[s] = Inf
                /\ wmFile'.shape # "corrupt" => Persisted(wmFile', s) = Inf ]_vars

\* a session of the legacy list has a tool call in its file, the list has been
\* saved as a mapping and reloaded, and the scan of a later cycle is over
C16_Witness ==
    \E s \in SessionIds :
        /\ wmFile.shape = "dict"
        /\ Persisted(wmFile, s) = Inf
        /\ \E i \in 1..Len(files[s]) : files[s][i] \in { ToolLine(ts) : ts \in 1..MaxTs }
        /\ mtime[s] > 0
        /\ pc = "scanned"

\* C17: a legacy flag true in the mapping is loaded as +inf.
C17_FlagLoadsAsInf ==
    \A s \in SessionIds :
        (pc = "loaded" /\ wmFile.shape = "dict" /\ wmFile.map[s] = [t |-> "bool", v |-> 1])
            => SESSION_TIMESTAMPS[s] = Inf

\* C18: load_session_timestamps returns for a mapping: 0 for every value that
\* is no number and that float() rejects (null, a list, an unparsable string), and the
\* number itself for a number or a string float() parses.
C18_LoadCoerces ==
    (pc = "loaded" /\ wmFile.shape = "dict") =>
        \A s \in SessionIds :
            LET value == wmFile.map[s]
            IN  /\ (value.t \in {"null", "list", "absent"}) => SESSION_TIMESTAMPS[s] = 0
                /\ (value.t = "str" /\ value.v = -2) => SESSION_TIMESTAMPS[s] = 0
                /\ (value.t = "str" /\ value.v # -2) => SESSION_TIMESTAMPS[s] = value.v
                /\ (value.t = "num") => SESSION_TIMESTAMPS[s] = value.v

\* one value is an unparsable string, the other a number
C18_Witness ==
    /\ pc = "loaded"
    /\ wmFile.shape = "dict"
    /\ wmFile.map[<<"main", "s1">>] = [t |-> "str", v |-> -2]
    /\ wmFile.map[<<"nox", "s1">>] = Num(2)
    /\ SESSION_TIMESTAMPS[<<"main", "s1">>] = 0
    /\ SESSION_TIMESTAMPS[<<"nox", "s1">>] = 2

\* C19: every step leaves in the watermark file the mapping it held or the
\* complete mapping save_session_timestamps writes.
C19_AtomicSave ==
    [][ wmFile' \in { wmFile, save_session_timestamps(SESSION_TIMESTAMPS) } ]_vars

\* C20: a scan yields no activity of a session whose file's modification time
\* is not greater than the session's watermark, and leaves that watermark as it
\* was.
C20_UnmodifiedSkipped ==
    [][ (pc = "loaded" /\ pc' = "scanned") =>
          \A s \in SessionIds :
              NumLeq(mtime[s], SESSION_TIMESTAMPS[s]) =>
                  /\ SESSION_TIMESTAMPS'[s] = SESSION_TIMESTAMPS[s]
                  /\ \A k \in 1..Len(batch') : batch'[k].line[1] # s ]_vars

\* a file with a tool call newer than the watermark, written when the
\* watermark says, has been skipped
C20_Witness ==
    \E s \in SessionIds :
        /\ pc = "scanned"
        /\ files[s] = << ToolLine(MaxTs) >>
        /\ mtime[s] = 1
        /\ SESSION_TIMESTAMPS[s] = 1
        /\ \A k \in 1..Len(batch) : SessionOf(k) # s

(***************************************************************************)
(* Stale files, missing files, publish failures                            *)
(***************************************************************************)
\* C21: the file of a session that is older than the staleness threshold is
\* handed to the parser at most once.
C21_StaleScannedOnce == \A s \in SessionIds : stale[s] => scans[s] <= 1

\* C28: a scan that found activities is followed by the write of the store,
\* which then holds them, also when the store file did not exist.
C28_MissingStoreIsEmpty ==
    [][ (pc = "scanned" /\ batch # <<>>) =>
            (pc' = "stored" /\ Len(storeFile') = Len(storeFile) + Len(batch)) ]_vars

\* C29: after the store is written, whatever happens to git add, commit and
\* push, the store stays as written and the cycle goes on to the write of the
\* watermark file.
C29_PublishBestEffort ==
    [][ pc = "stored" => (storeFile' = storeFile /\ pc' = "published") ]_vars

\* the activities of a batch without the places of their lines
Found(acts) == [ k \in 1..Len(acts) |-> acts[k].act ]

\* a line that is no JSON, or an entry without a timestamp
Malformed(line) ==
    \/ line.json = "invalid"
    \/ line.json = "object" /\ line.timestamp.fmt = "none"

WithoutMalformed(fs) ==
    [ s \in SessionIds |-> SelectSeq(fs[s], LAMBDA line : ~Malformed(line)) ]

\* C22: a malformed line (no JSON, or no timestamp) is skipped alone: no
\* activity of the scan comes from it, and the scan returns the activities and
\* the watermarks it returns for the same files with the malformed lines taken
\* out, so every other line above the watermark is classified in the same scan.
C22_MalformedSkippedAlone ==
    pc = "scanned" =>
        LET clean == scan_sessions(WithoutMalformed(files), mtime, stale,
                                   load_session_timestamps(wmFile))
        IN  /\ \A k \in 1..Len(batch) : ~Malformed(LineOf(batch[k]))
            /\ Found(batch) = Found(clean.activities)
            /\ SESSION_TIMESTAMPS = clean.timestamps

\* a scan that classified a line standing after a malformed one
C22_Witness ==
    /\ pc = "scanned"
    /\ \E k \in 1..Len(batch) :
           \E i \in 1..(batch[k].line[2] - 1) : Malformed(files[batch[k].line[1]][i])

\* the normalized timestamps of the entries of a file above a watermark
Above(lines, last) ==
    { Normalize(lines[i].timestamp) :
        i \in { j \in 1..Len(lines) : /\ lines[j].json \in {"object", "null_content"}
                                       /\ NumLess(last, Normalize(lines[j].timestamp)) } }

Largest(S) == CHOOSE m \in S : \A x \in S : NumLeq(x, m)

\* C23: the scan of a file returns the maximum of the input watermark and the
\* normalized timestamps of all its lines above that watermark, whatever the
\* order of the lines; with no such line it returns the input watermark.
C23_ReturnsMaximum ==
    pc = "scanned" =>
        \A s \in SessionIds :
            LET last == load_session_timestamps(wmFile)[s]
            IN  Parsed(s, load_session_timestamps(wmFile)) =>
                    SESSION_TIMESTAMPS[s] = Largest(Above(files[s], last) \cup {last})

\* C24: every activity read from a file under agents/<A>/sessions has agent A,
\* whatever agent its entry names, in the batch and in the store, and its
\* event is tracked under the key of that file: the watermark of <A>:<stem>
\* has reached the entry's timestamp.
C24_AgentFromDirectory ==
    /\ pc = "scanned" =>
           \A k \in 1..Len(batch) :
               LET sid == batch[k].line[1]
               IN  /\ batch[k].act.agent = sid[1]
                   /\ NumLeq(Normalize(LineOf(batch[k]).timestamp),
                             SESSION_TIMESTAMPS[sid])
    /\ \A k \in 1..Len(storeFile) : storeFile[k].agent \in Range(AGENT_DIRS)

\* an activity stored under the directory's agent for an entry that names
\* another agent
C24_Witness ==
    /\ pc = "stored"
    /\ \E k \in 1..Len(batch) :
           /\ LineOf(batch[k]).agent # batch[k].act.agent
           /\ \E j \in 1..Len(storeFile) : storeFile[j].agent = batch[k].act.agent

RecognisedTools ==
    {"write", "edit", "exec", "browser", "web_search", "web_fetch", "sessions_spawn",
     "message", "cron"}

\* the command runs echo, ls, cat, pwd or sleep
RunsTrivial(command) == command \in TrivialCommands \cup {"cat notes.py"}

\* the command names a .py or .sh file
ReferencesScript(command) ==
    command \in {"cat notes.py", "python run.py", "./build.sh", "python tools.py"}

Silent(item) ==
    /\ item.type = "toolCall"
    /\ \/ item.name \notin RecognisedTools
       \/ item.name = "exec" /\ RunsTrivial(item.command)

\* the tool calls of the session files, each with its entry and agent
ToolCalls ==
    UNION { { [item |-> files[p[1]][p[2]].content[p[3]], entry |-> files[p[1]][p[2]],
               agent |-> p[1][1]] :
                p \in { q \in {s} \X (DOMAIN files[s]) \X (1..2) :
                          /\ q[3] <= Len(files[s][q[2]].content)
                          /\ files[s][q[2]].content[q[3]].type = "toolCall" } } :
            s \in SessionIds }

C26_ScriptExecution ==
    \A c \in ToolCalls :
        c.item.name = "exec" =>
            LET r == classify_tool_activity(c.item, c.agent, c.entry)
            IN  /\ (ReferencesScript(c.item.command) /\ ~RunsTrivial(c.item.command)) =>
                       (r # <<>> /\ r[1].type = "script_execution")
                /\ ~ReferencesScript(c.item.command) => r = <<>>

\* the ids of the events of the session files: the classified lines, each by
\* its normalized timestamp
EventIds ==
    UNION { { <<"session", Normalize(files[s][i].timestamp)>> :
                i \in { j \in DOMAIN files[s] :
                          LineActivities(files[s][j], s[1], <<s, j>>) # <<>> } } :
            s \in SessionIds }

\* C27: the id of an activity is a function of its event alone: a commit's id
\* is its hash prefix, a session activity's id is the normalized timestamp of
\* its line, in every run; so the store holds only ids of events and, after
\* deduplication, one entry per id, also when a line was ingested twice.
C27_SameEventSameId ==
    /\ \A c \in GitCommits : commit_to_activity(c).id = <<"auto", c.hash[1]>>
    /\ \A k \in 1..Len(batch) :
           convert_to_log_entry(batch[k].act).id =
               <<"session", Normalize(LineOf(batch[k]).timestamp)>>
    /\ Ids(storeFile) \subseteq EventIds
    /\ LET kept == deduplicate_activities(storeFile)
       IN  \A id \in EventIds :
               Cardinality({ k \in 1..Len(kept) : kept[k].id = id }) <= 1

\* a line ingested by two runs: two equal entries in the store, one after
\* deduplication
C27_Witness ==
    /\ pc = "idle"
    /\ aborts > 0
    /\ \E e \in Range(storeFile) : Count(storeFile, e) = 2
    /\ Len(deduplicate_activities(storeFile)) = 1

\* scan_sessions over the file of session s alone: the other files are left
\* out as unmodified
ScanOnly(s, timestamps) ==
    scan_sessions(files, [ t \in SessionIds |-> IF t = s THEN mtime[t] ELSE 0 ], stale,
                  timestamps)

\* the scan with the directories taken in the opposite order
RECURSIVE ScanBackFrom(_, _, _)
ScanBackFrom(k, timestamps, found) ==
    IF k = 0 THEN [activities |-> found, timestamps |-> timestamps]
    ELSE LET r == ScanOnly(session_id(SessionFiles[k]), timestamps)
         IN  ScanBackFrom(k - 1, r.timestamps, found \o r.activities)

\* C30: scanning the file of one session changes the watermark of that session
\* only, and the result of the cycle, the watermarks and the store it writes,
\* is the one the cycle has with the sessions scanned in the opposite order.
C30_ScanConfined ==
    [][ LET loaded == load_session_timestamps(wmFile)
            back == ScanBackFrom(Len(SessionFiles), loaded, <<>>)
        IN  /\ pc' = "scanned" =>
                   /\ \A s, t \in SessionIds :
                          s # t => ScanOnly(s, loaded).timestamps[t] = loaded[t]
                   /\ SESSION_TIMESTAMPS' = back.timestamps
            /\ (pc = "scanned" /\ pc' = "stored") =>
                   storeFile' = ExtendSort(storeFile, LogEntries(back.activities)) ]_vars

\* the same entries, each as often
SameEntries(a, b) == \A e \in Range(a) \cup Range(b) : Count(a, e) = Count(b, e)

\* C30 (amended): scanning the file of one session changes the watermark of
\* that session only, and the watermarks of the cycle and the entries of the
\* store it writes are those the cycle has with the sessions scanned in the
\* opposite order; the order of store entries of equal timestamp is the order
\* of the scan.
C30_OrderUpToTies ==
    [][ LET loaded == load_session_timestamps(wmFile)
            back == ScanBackFrom(Len(SessionFiles), loaded, <<>>)
        IN  /\ pc' = "scanned" =>
                   /\ \A s, t \in SessionIds :
                          s # t => ScanOnly(s, loaded).timestamps[t] = loaded[t]
                   /\ SESSION_TIMESTAMPS' = back.timestamps
            /\ (pc = "scanned" /\ pc' = "stored") =>
                   SameEntries(storeFile', ExtendSort(storeFile, LogEntries(back.activities))) ]_vars

\* a cycle has written the entries of two sessions and moved both watermarks
C30_Witness ==
    /\ pc = "stored"
    /\ \E j, k \in 1..Len(batch) : batch[j].line[1] # batch[k].line[1]
    /\ \A s \in SessionIds :
           NumLess(load_session_timestamps(wmFile)[s], SESSION_TIMESTAMPS[s])

\* the entry ends the parse of its file by an exception
StopsScan(line, last) ==
    \/ line.json = "other"
    \/ line.json = "null_content" /\ NumLess(last, Normalize(line.timestamp))

\* the parse of the file of s from watermark last gets to line i
Reached(s, i, last) == \A j \in 1..(i - 1) : ~StopsScan(files[s][j], last)

\* the text holds a trigger phrase in some case
Trigger(text) == text \in {"sessions_spawn", "spawned subagent", "Spawned Subagent"}

\* C31: an assistant entry above the watermark whose content is one text item
\* yields exactly one activity, of type subagent_spawn, when the text holds
\* 'sessions_spawn' or 'spawned subagent' in any case, and no activity
\* otherwise (for the entries the parse of the file gets to).
C31_SpawnPhrase ==
    pc = "scanned" =>
        \A s \in SessionIds : \A i \in DOMAIN files[s] :
            LET line == files[s][i]
                last == load_session_timestamps(wmFile)[s]
                from == { k \in 1..Len(batch) : batch[k].line = <<s, i>> }
            IN  (/\ line.json = "object"
                 /\ line.role = "assistant"
                 /\ Len(line.content) = 1
                 /\ line.content[1].type = "text"
                 /\ NumLess(last, Normalize(line.timestamp))
                 /\ Reached(s, i, last)) =>
                    IF Trigger(line.content[1].text)
                    THEN /\ Cardinality(from) = 1
                         /\ \A k \in from : batch[k].act.type = "subagent_spawn"
                    ELSE from = {}

\* a scan found a spawn in a text written with capitals, and nothing in
\* another text
C31_Witness ==
    /\ pc = "scanned"
    /\ \E k \in 1..Len(batch) :
           /\ batch[k].act.type = "subagent_spawn"
           /\ LineOf(batch[k]).content[1].text = "Spawned Subagent"
    /\ \E s \in SessionIds : \E i \in DOMAIN files[s] :
           /\ files[s][i].content # <<>>
           /\ files[s][i].content[1].text = "working on it"

\* C35: two activities of a scan, built from different events (lines of
\* different sessions, or different tool calls of one line), never get the
\* same id, so deduplicate_activities keeps every entry of the batch.
C35_DistinctIds ==
    pc = "scanned" =>
        /\ UniqueIds(LogEntries(batch))
        /\ Len(deduplicate_activities(LogEntries(batch))) = Len(batch)

\* valid JSON of another shape than the parse expects
WrongShape(line) == line.json \in {"other", "null_content"}

\* C39: a line that is valid JSON of the wrong shape does not stop the scan
\* of its file: a later line that classifies and is above the watermark when
\* a cycle starts is classified by that cycle, or is left above the
\* watermark for a later cycle, and not so by the second scan of the file.
C39_WrongShapeTolerated ==
    [][ (pc # "idle" /\ pc' = "idle" /\ settled') =>
            \A s \in SessionIds : \A j \in DOMAIN files[s] :
                (/\ LineActivities(files[s][j], s[1], <<s, j>>) # <<>>
                 /\ NumLess(Persisted(wmFile, s), Normalize(files[s][j].timestamp))
                 /\ \E i \in 1..(j - 1) : WrongShape(files[s][i])) =>
                    \/ <<s, j>> \in done'
                    \/ /\ NumLess(Persisted(wmFile', s), Normalize(files[s][j].timestamp))
                       /\ scans'[s] < 2 ]_vars

\* C38: a cycle of main run when no session file has changed since the last
\* cycle that ran to its end changes nothing that is persisted: in each of its
\* steps the store, data/meta.json, meta.json and the watermark of every
\* session stay as they are.
C38_NoOpCycle ==
    [][ (settled /\ settled' /\ aborts' = aborts) =>
            /\ storeFile' = storeFile
            /\ dataMeta' = dataMeta
            /\ rootMeta' = rootMeta
            /\ \A s \in SessionIds : Persisted(wmFile', s) = Persisted(wmFile, s) ]_vars

\* the events of the session files that classify, by place
Classifying ==
    UNION { { <<s, i>> : i \in { j \in DOMAIN files[s] :
                                   LineActivities(files[s][j], s[1], <<s, j>>) # <<>> } } :
            s \in SessionIds }

\* C37: at the end of every cycle that ran to its end, each event that
\* classifies and whose timestamp is at most the watermark persisted for its
\* session (a timestamp, not the flag of a legacy list) has an entry of its
\* id in the persisted store.
C37_WatermarkBehindStore ==
    (pc = "idle" /\ caller \in {"cli", "idle", "load"} /\ settled /\ aborts = 0
        /\ wmFile.shape = "dict") =>
        \A p \in Classifying :
            LET ts == Normalize(files[p[1]][p[2]].timestamp)
            IN  (Persisted(wmFile, p[1]) # Inf /\ NumLeq(ts, Persisted(wmFile, p[1]))) =>
                    <<"session", ts>> \in Ids(storeFile)

\* C36: every assistant line with a tool call of a recognised tool that is
\* appended to a session file is in the end represented in the store; in the
\* form of a single state: once a crash-free cycle has run to its end after
\* the last append, and later cycles have nothing left to read, the store
\* holds an entry of the id of every such line (of a session the watermark
\* file does not flag as processed).
C36_EventuallyStored ==
    (pc = "idle" /\ settled /\ aborts = 0 /\ wmFile.shape = "dict") =>
        \A p \in Classifying :
            LET line == files[p[1]][p[2]]
            IN  (/\ line.content[1].type = "toolCall"
                 /\ line.content[1].name \in RecognisedTools
                 /\ Persisted(wmFile, p[1]) # Inf) =>
                    <<"session", Normalize(line.timestamp)>> \in Ids(storeFile)

(***************************************************************************)
(* Task queue                                                              *)
(***************************************************************************)
InProgress(ts) == { i \in DOMAIN ts : ts[i].status = "in_progress" }

\* C32: after every call at most one task is in progress, and a call that
\* puts a task in progress leaves every other task that was in progress
\* pending with started_at None.
C32_OneInProgress ==
    [][ /\ Cardinality(InProgress(tasks')) <= 1
        /\ \A i \in InProgress(tasks'), j \in InProgress(tasks) :
              i # j => /\ tasks'[j].status = "pending"
                       /\ tasks'[j].started_at = None ]_vars

\* start_task of one task has moved another back to pending: only a task
\* that was started after it was completed is pending with completed_at set
C32_Witness ==
    \E i, j \in DOMAIN tasks :
        /\ i # j
        /\ tasks[i].status = "in_progress" /\ tasks[i].started_at # None
        /\ tasks[j].status = "pending" /\ tasks[j].started_at = None
        /\ tasks[j].completed_at # None
        /\ queueFile = tasks

\* C40: a task has completed_at set exactly when its status is completed.
C40_CompletedAtIffCompleted ==
    \A i \in DOMAIN tasks : (tasks[i].completed_at # None) <=> (tasks[i].status = "completed")

C34_ExactlyOneSink ==
    [][ now' # now =>
            ~((Len(dashboard') > Len(dashboard)) <=> (Len(storeFile') > Len(storeFile))) ]_vars

====
